---- MODULE Spec2Model ----
(***************************************************************************)
(* smplog (package logs): the terminal styling and layout engine.          *)
(*                                                                         *)
(* A Go string is modelled as a sequence of units, one unit per rune that  *)
(* utf8.RuneCountInString counts: a valid code point, or one invalid byte. *)
(* Units are written as TLA+ strings: "a", " ", "[", ... stand for the     *)
(* code point itself, ESC for U+001B, BadByte for the byte 0xFF (never     *)
(* part of valid UTF-8) and RuneError for U+FFFD.                          *)
(***************************************************************************)
EXTENDS Integers, Sequences, FiniteSets, TLC

VARIABLES
    currentConfig,  \* the package-global configuration (guarded by stateMu)
    stdoutOpen,     \* whether writes to os.Stdout succeed
    pc,             \* "idle": no call in progress; "done": a call has returned
    request,        \* the call that has just returned, with its parameters
    composites,     \* the writes that call attempted (its writeComposite or
                    \* writeANSI invocations), in order, each with its outcome
    stdout,         \* the writes os.Stdout accepted during that call, in order
    ret,            \* what the call returned to its caller
    arg,            \* the arguments of a pure text function
    res,            \* the result of applying it
    goroutines      \* the calls in progress on concurrent goroutines, each with its
                    \* local variables

vars ==
    <<currentConfig, stdoutOpen, pc, request, composites, stdout, ret, arg, res,
      goroutines>>

tuiVars == <<currentConfig, stdoutOpen, pc, request, composites, stdout, ret>>

textVars == <<arg, res, goroutines>>

----------------------------------------------------------------------------
(* Bounds of the model.                                                     *)

\* Longest string over the escape alphabet {ESC, "[", "m"} given to a text function.
MaxEscLen == 6

\* Longest string over the full alphabet given to a text function.
MaxTextLen == 3

\* Largest width given to Clip, PadLeft and PadRight.
MaxClipWidth == 4

\* Most entries in one Menu request.
MaxItems == 2

\* A narrow and a wide layout width (per-call Width and TUIConfig.MaxWidth).
NarrowWidth == 3

WideWidth == 14

\* A configured divider width other than the default.
ShortDivider == 5

\* Largest row or column given to MoveTo and WriteAt; positions go down to -2.
MaxCoord == 3

----------------------------------------------------------------------------
(* Units of text.                                                           *)

ESC == "ESC"

BadByte == "0xFF"

RuneError == "U+FFFD"

NUL == "U+0000"

NL == "\n"

SP == " "

Digits == {"0", "1", "2", "3", "4", "5", "6", "7", "8", "9"}

Max(a, b) == IF a > b THEN a ELSE b

Min(a, b) == IF a < b THEN a ELSE b

\* utf8.RuneCountInString: every code point and every invalid byte counts one.
RuneCountInString(s) == Len(s)

\* strings.Repeat(string(c), n) for n >= 0.
Repeat(c, n) == [i \in 1..n |-> c]

DigitOf(n) == <<"0", "1", "2", "3", "4", "5", "6", "7", "8", "9">>[n + 1]

\* The decimal digits of n >= 0 (the verb %d).
RECURSIVE Itoa(_)
Itoa(n) == IF n < 10 THEN <<DigitOf(n)>> ELSE Itoa(n \div 10) \o <<DigitOf(n % 10)>>

\* What `for _, r := range s` yields for a unit: an invalid byte decodes to U+FFFD.
DecodeRune(c) == IF c = BadByte THEN RuneError ELSE c

----------------------------------------------------------------------------
(* Style codec (colors.go).                                                 *)

\* sgr(n): ESC [ n m.
sgr(n) == <<ESC, "[">> \o Itoa(n) \o <<"m">>

StyleReset == sgr(0)

StyleBold == sgr(1)

\* StyleColor256(n): ESC [ 3 8 ; 5 ; n m.
StyleColor256(n) == <<ESC, "[", "3", "8", ";", "5", ";">> \o Itoa(n) \o <<"m">>

\* Number of consecutive units of the class [0-9;] starting at position j.
RECURSIVE ParamRun(_, _)
ParamRun(s, j) ==
    IF j <= Len(s) /\ s[j] \in Digits \cup {";"} THEN 1 + ParamRun(s, j + 1) ELSE 0

\* The pattern with any final byte of a control sequence in place of 'm'.
ansiPatternAnyFinal(s, i) ==
    IF i + 1 <= Len(s) /\ s[i] = ESC /\ s[i + 1] = "["
    THEN LET n == ParamRun(s, i + 2)
         IN  IF i + 2 + n <= Len(s) /\ s[i + 2 + n] \in {"m", "J", "H", "l", "h"}
             THEN n + 3 ELSE 0
    ELSE 0

\* Length of the match of ansiPattern (\x1b\[[0-9;]*m) that starts at position i,
\* or 0 when there is none. The class excludes 'm', so the greedy run is the only
\* candidate.
ansiPattern(s, i) ==
    IF i + 1 <= Len(s) /\ s[i] = ESC /\ s[i + 1] = "["
    THEN LET n == ParamRun(s, i + 2)
         IN  IF i + 2 + n <= Len(s) /\ s[i + 2 + n] = "m" THEN n + 3 ELSE 0
    ELSE 0

\* A replacement that stops after the first match: the leftmost match is dropped
\* and the rest of the string is kept as it is.
RECURSIVE ReplaceFirstFrom(_, _)
ReplaceFirstFrom(s, i) ==
    IF i > Len(s) THEN <<>>
    ELSE LET n == ansiPattern(s, i)
         IN  IF n > 0 THEN SubSeq(s, i + n, Len(s))
             ELSE <<s[i]>> \o ReplaceFirstFrom(s, i + 1)

\* ReplaceAllString(s, ""): one left-to-right pass over the original string,
\* dropping each leftmost non-overlapping match.
RECURSIVE ReplaceAllFrom(_, _)
ReplaceAllFrom(s, i) ==
    IF i > Len(s) THEN <<>>
    ELSE LET n == ansiPattern(s, i)
         IN  IF n > 0 THEN ReplaceAllFrom(s, i + n)
             ELSE <<s[i]>> \o ReplaceAllFrom(s, i + 1)

StripANSI(s) == ReplaceAllFrom(s, 1)

\* colorize without its test of the disabled flag.
colorizeIgnoreDisabled(color, text, disabled) ==
    IF color = <<>> \/ text = <<>> THEN text
    ELSE color \o text \o StyleReset

colorize(color, text, disabled) ==
    IF disabled \/ color = <<>> \/ text = <<>> THEN text
    ELSE color \o text \o StyleReset

----------------------------------------------------------------------------
(* Width-aware text primitives (tui_engine.go).                             *)

\* Clip with its loop test as n > width: one rune too many is kept.
ClipOffByOne(width, s) ==
    IF width <= 0 THEN <<>>
    ELSE IF RuneCountInString(s) <= width THEN s
    ELSE [i \in 1..(width + 1) |-> DecodeRune(s[i])]

Clip(width, s) ==
    IF width <= 0 THEN <<>>
    ELSE IF RuneCountInString(s) <= width THEN s
    ELSE [i \in 1..width |-> DecodeRune(s[i])]

\* PadLeft without the clipping of s.
PadLeftUnclipped(width, s) ==
    Repeat(SP, Max(width - RuneCountInString(s), 0)) \o s

PadLeft(width, s) ==
    LET c == Clip(width, s)
    IN  Repeat(SP, Max(width - RuneCountInString(c), 0)) \o c

PadRight(width, s) ==
    LET c == Clip(width, s)
    IN  c \o Repeat(SP, Max(width - RuneCountInString(c), 0))

\* Center with the odd space of the padding put on the left.
CenterCeilLeft(width, s) ==
    LET c     == Clip(width, s)
        pad   == Max(width - RuneCountInString(c), 0)
        left  == (pad + 1) \div 2
        right == pad - left
    IN  Repeat(SP, left) \o c \o Repeat(SP, right)

Center(width, s) ==
    LET c     == Clip(width, s)
        pad   == Max(width - RuneCountInString(c), 0)
        left  == pad \div 2
        right == pad - left
    IN  Repeat(SP, left) \o c \o Repeat(SP, right)


----------------------------------------------------------------------------
(* Layout configuration (tui_engine.go).                                    *)

defaultMenuSelectedPrefix == <<">">>

defaultMenuUnselectedPrefix == <<SP>>

defaultMenuIndexWidth == 2

defaultInputCursor == <<"_">>

defaultDividerWidth == 64

DefaultTUIConfig ==
    [MenuSelectedPrefix   |-> defaultMenuSelectedPrefix,
     MenuUnselectedPrefix |-> defaultMenuUnselectedPrefix,
     MenuIndexWidth       |-> defaultMenuIndexWidth,
     InputCursor          |-> defaultInputCursor,
     DividerWidth         |-> defaultDividerWidth,
     MaxWidth             |-> 0,
     Centered             |-> FALSE]

normalizeTUIConfig(cfg) ==
    LET def == DefaultTUIConfig
    IN  [cfg EXCEPT
            !.MenuSelectedPrefix   = IF @ = <<>> THEN def.MenuSelectedPrefix ELSE @,
            !.MenuUnselectedPrefix = IF @ = <<>> THEN def.MenuUnselectedPrefix ELSE @,
            !.MenuIndexWidth       = IF @ <= 0 THEN def.MenuIndexWidth ELSE @,
            !.InputCursor          = IF @ = <<>> THEN def.InputCursor ELSE @,
            !.DividerWidth         = IF @ <= 0 THEN def.DividerWidth ELSE @]

\* Configured(): the snapshot of the active configuration.
Configured == currentConfig

----------------------------------------------------------------------------
(* Line compositor (tui_components.go).                                     *)

Nil == "nil"

\* The error of a write to a closed os.Stdout (os.ErrClosed).
ErrClosed == "write /dev/stdout: file already closed"

\* A render method has no result: its caller observes nothing.
NoResult == "no result"

\* fmt.Fprint(os.Stdout, text): one Write of text.
Fprint(open, text) ==
    [data |-> text, err |-> IF open THEN Nil ELSE ErrClosed]

\* fmt.Fprintln(os.Stdout, output): one Write of output and a newline.
Fprintln(open, output) == Fprint(open, output \o <<NL>>)

\* effectiveWidth without its test of MaxWidth > 0.
effectiveWidthAnyMaxWidth(paramWidth, cfg) ==
    IF paramWidth > 0 THEN paramWidth ELSE cfg.TUI.MaxWidth

effectiveWidth(paramWidth, cfg) ==
    IF paramWidth > 0 THEN paramWidth
    ELSE IF cfg.TUI.MaxWidth > 0 THEN cfg.TUI.MaxWidth
    ELSE 0

\* writeComposite with the odd space of the padding put on the left.
writeCompositeCeilLeft(cfg, line, plainWidth, open) ==
    LET centering == cfg.TUI.Centered /\ cfg.TUI.MaxWidth > 0
        pad    == Max(cfg.TUI.MaxWidth - plainWidth, 0)
        left   == (pad + 1) \div 2
        right  == pad - left
        output == IF centering THEN Repeat(SP, left) \o line \o Repeat(SP, right)
                  ELSE line
        w      == Fprintln(open, output)
    IN  [line |-> line, plainWidth |-> plainWidth,
         left |-> IF centering THEN left ELSE 0,
         right |-> IF centering THEN right ELSE 0,
         data |-> w.data, err |-> w.err]

\* writeComposite without its test of the Centered flag.
writeCompositeIgnoreCentered(cfg, line, plainWidth, open) ==
    LET centering == cfg.TUI.MaxWidth > 0
        pad    == Max(cfg.TUI.MaxWidth - plainWidth, 0)
        left   == pad \div 2
        right  == pad - left
        output == IF centering THEN Repeat(SP, left) \o line \o Repeat(SP, right)
                  ELSE line
        w      == Fprintln(open, output)
    IN  [line |-> line, plainWidth |-> plainWidth,
         left |-> IF centering THEN left ELSE 0,
         right |-> IF centering THEN right ELSE 0,
         data |-> w.data, err |-> w.err]

\* The record keeps the arguments and the padding beside what went to the sink.
writeComposite(cfg, line, plainWidth, open) ==
    LET centering == cfg.TUI.Centered /\ cfg.TUI.MaxWidth > 0
        pad    == Max(cfg.TUI.MaxWidth - plainWidth, 0)
        left   == pad \div 2
        right  == pad - left
        output == IF centering THEN Repeat(SP, left) \o line \o Repeat(SP, right)
                  ELSE line
        w      == Fprintln(open, output)
    IN  [line |-> line, plainWidth |-> plainWidth,
         left |-> IF centering THEN left ELSE 0,
         right |-> IF centering THEN right ELSE 0,
         data |-> w.data, err |-> w.err]

writeComponent(cfg, color, plainContent, width, open) ==
    LET plain   == IF width > 0 THEN Clip(width, plainContent) ELSE plainContent
        colored == colorize(color, plain, cfg.NoColor)
    IN  writeComposite(cfg, colored, RuneCountInString(plain), open)

----------------------------------------------------------------------------
(* Screen and cursor control (tui_engine.go).                               *)

\* The error of a write that fails while os.Stdout is open.
ErrNoSpace == "write /dev/stdout: no space left on device"

\* "\033[?1049h"
EnterAltScreen == <<ESC, "[", "?", "1", "0", "4", "9", "h">>

\* "\033[?1049l"
ExitAltScreen == <<ESC, "[", "?", "1", "0", "4", "9", "l">>

\* "\033[?25l"
HideCursor == <<ESC, "[", "?", "2", "5", "l">>

\* "\033[?25h"
ShowCursor == <<ESC, "[", "?", "2", "5", "h">>

\* "\033[2J"
ClearScreen == <<ESC, "[", "2", "J">>

\* maxOne that lets 0 through.
maxOneFromZero(n) == IF n < 0 THEN 1 ELSE n

maxOne(n) == IF n < 1 THEN 1 ELSE n

\* The sequence MoveTo(row, col) writes: fmt.Sprintf("\033[%d;%dH", ...).
MoveTo(row, col) ==
    <<ESC, "[">> \o Itoa(maxOne(row)) \o <<";">> \o Itoa(maxOne(col)) \o <<"H">>

\* writeANSI(seq) as the k-th write of a call: it fails when os.Stdout is closed,
\* or when it is the write the sink refuses (failAt; 0 for none).
writeANSI(seq, k, open, failAt) ==
    [data |-> seq,
     err  |-> IF ~open THEN ErrClosed ELSE IF k = failAt THEN ErrNoSpace ELSE Nil]

\* A helper that goes on with its writes after one has failed.
ThroughErrors(seqs, open, failAt) ==
    [k \in 1..Len(seqs) |-> writeANSI(seqs[k], k, open, failAt)]

\* A helper that makes its writes in order and returns at the first error: the
\* writes it attempted, the failed one last.
UntilError(seqs, open, failAt) ==
    LET all   == [k \in 1..Len(seqs) |-> writeANSI(seqs[k], k, open, failAt)]
        bad   == { k \in 1..Len(seqs) : all[k].err # Nil }
        first == IF bad = {} THEN Len(seqs)
                 ELSE CHOOSE k \in bad : \A j \in bad : k <= j
    IN  SubSeq(all, 1, first)

\* BeginFrame's writes.
RunBeginFrame(open, failAt) ==
    UntilError(<<EnterAltScreen, HideCursor, ClearScreen, MoveTo(1, 1)>>, open, failAt)

\* EndFrame leaving the alternate screen before it shows the cursor.
RunEndFrameExitFirst(open, failAt) ==
    UntilError(<<ExitAltScreen, ShowCursor>>, open, failAt)

\* EndFrame's writes.
RunEndFrame(open, failAt) ==
    UntilError(<<ShowCursor, ExitAltScreen>>, open, failAt)

\* TUI.Refresh's writes.
RunRefresh(open, failAt) ==
    UntilError(<<ClearScreen, MoveTo(1, 1)>>, open, failAt)

\* WriteAt(row, col, color, "%s", text)'s writes: the move, then the colorized text.
RunWriteAt(p, cfg, open, failAt) ==
    UntilError(<<MoveTo(p.row, p.col), colorize(p.color, p.text, cfg.NoColor)>>,
               open, failAt)

\* The error a helper returns: that of its last write.
ErrOf(ws) == ws[Len(ws)].err

----------------------------------------------------------------------------
(* Component renderers (tui_components.go).                                 *)

\* fmt.Sprintf("%*d", width, n) for width > 0 and n >= 0: right-aligned in width,
\* never truncated.
SprintfStarD(width, n) ==
    LET d == Itoa(n) IN Repeat(SP, Max(width - Len(d), 0)) \o d

\* The rows of Menu numbered from 0.
MenuRowsZeroBased(p, cfg) ==
    [i \in 1..Len(p.Items) |->
        LET entry  == p.Items[i]
            color  == IF entry.Selected THEN cfg.Colors.Title ELSE cfg.Colors.Menu
            prefix == IF entry.Selected THEN cfg.TUI.MenuSelectedPrefix
                      ELSE cfg.TUI.MenuUnselectedPrefix
        IN  [plain |-> prefix \o <<SP>> \o SprintfStarD(cfg.TUI.MenuIndexWidth, i - 1)
                         \o <<")", SP>> \o entry.Label,
             color |-> color]]

\* The rows Menu pre-computes: plain text and color of each entry.
MenuRows(p, cfg) ==
    [i \in 1..Len(p.Items) |->
        LET entry  == p.Items[i]
            color  == IF entry.Selected THEN cfg.Colors.Title ELSE cfg.Colors.Menu
            prefix == IF entry.Selected THEN cfg.TUI.MenuSelectedPrefix
                      ELSE cfg.TUI.MenuUnselectedPrefix
        IN  [plain |-> prefix \o <<SP>> \o SprintfStarD(cfg.TUI.MenuIndexWidth, i)
                         \o <<")", SP>> \o entry.Label,
             color |-> color]]

\* The widest row of the block, in runes (0 for no rows).
RECURSIVE BlockWidth(_, _)
BlockWidth(rows, n) ==
    IF n = 0 THEN 0
    ELSE Max(BlockWidth(rows, n - 1), RuneCountInString(rows[n].plain))

\* Menu without the padding of each row to the block width.
RenderMenuUnpadded(p, cfg0, open) ==
    LET cfg   == [cfg0 EXCEPT !.TUI = normalizeTUIConfig(@)]
        width == effectiveWidth(p.Width, cfg)
        rows  == MenuRows(p, cfg)
    IN  [i \in 1..Len(rows) |->
            writeComponent(cfg, rows[i].color, rows[i].plain, width, open)]

\* TUI.Menu: the writeComposite invocations it makes, in order. A failed write
\* is discarded and the loop goes on.
RenderMenu(p, cfg0, open) ==
    LET cfg        == [cfg0 EXCEPT !.TUI = normalizeTUIConfig(@)]
        width      == effectiveWidth(p.Width, cfg)
        rows       == MenuRows(p, cfg)
        blockWidth == BlockWidth(rows, Len(rows))
    IN  [i \in 1..Len(rows) |->
            writeComponent(cfg, rows[i].color, PadRight(blockWidth, rows[i].plain),
                           width, open)]

\* MenuTitle that never clips its text.
RenderMenuTitleUnclipped(p, cfg, open) ==
    <<writeComponent(cfg, cfg.Colors.Title, p.Text, 0, open)>>

\* TUI.MenuTitle.
RenderMenuTitle(p, cfg, open) ==
    LET width == effectiveWidth(p.Width, cfg)
    IN  <<writeComponent(cfg, cfg.Colors.Title, p.Text, width, open)>>

\* Selector that leaves no room for the closing " >" when it clips the option.
RenderSelectorNoCloser(p, cfg, open) ==
    LET current0  == IF p.Current >= 0 /\ p.Current < Len(p.Items)
                     THEN p.Items[p.Current + 1] ELSE <<>>
        width     == effectiveWidth(p.Width, cfg)
        labelMax  == Max(width - RuneCountInString(current0) - 6, 0)
        label     == IF width > 0 THEN Clip(labelMax, p.Label) ELSE p.Label
        remaining == Max(width - RuneCountInString(label) - 4, 0)
        current   == IF width > 0 THEN Clip(remaining, current0) ELSE current0
        plainWidth  == RuneCountInString(label) + RuneCountInString(current) + 6
        labelText   == colorize(cfg.Colors.Prompt, label, cfg.NoColor)
        currentText == colorize(cfg.Colors.Data, current, cfg.NoColor)
        line == labelText \o <<":", SP, "<", SP>> \o currentText \o <<SP, ">">>
    IN  <<writeComposite(cfg, line, plainWidth, open)>>

\* Selector with an index outside Items moved to the nearest option.
RenderSelectorClampIndex(p, cfg, open) ==
    LET current0  == IF Len(p.Items) = 0 THEN <<>>
                     ELSE p.Items[Max(1, Min(p.Current + 1, Len(p.Items)))]
        width     == effectiveWidth(p.Width, cfg)
        labelMax  == Max(width - RuneCountInString(current0) - 6, 0)
        label     == IF width > 0 THEN Clip(labelMax, p.Label) ELSE p.Label
        remaining == Max(width - RuneCountInString(label) - 4, 0)
        current   == IF width > 0 THEN Clip(remaining - 2, current0) ELSE current0
        plainWidth  == RuneCountInString(label) + RuneCountInString(current) + 6
        labelText   == colorize(cfg.Colors.Prompt, label, cfg.NoColor)
        currentText == colorize(cfg.Colors.Data, current, cfg.NoColor)
        line == labelText \o <<":", SP, "<", SP>> \o currentText \o <<SP, ">">>
    IN  <<writeComposite(cfg, line, plainWidth, open)>>

\* Selector with the label clipped to the width less the decorations, whatever the
\* current option, and the option clipped to what the label leaves.
RenderSelectorLabelFirst(p, cfg, open) ==
    LET current0  == IF p.Current >= 0 /\ p.Current < Len(p.Items)
                     THEN p.Items[p.Current + 1] ELSE <<>>
        width     == effectiveWidth(p.Width, cfg)
        label     == IF width > 0 THEN Clip(width - 6, p.Label) ELSE p.Label
        current   == IF width > 0
                     THEN Clip(width - 6 - RuneCountInString(label), current0)
                     ELSE current0
        plainWidth  == RuneCountInString(label) + RuneCountInString(current) + 6
        labelText   == colorize(cfg.Colors.Prompt, label, cfg.NoColor)
        currentText == colorize(cfg.Colors.Data, current, cfg.NoColor)
        line == labelText \o <<":", SP, "<", SP>> \o currentText \o <<SP, ">">>
    IN  <<writeComposite(cfg, line, plainWidth, open)>>

\* TUI.Selector.
RenderSelector(p, cfg, open) ==
    LET current0  == IF p.Current >= 0 /\ p.Current < Len(p.Items)
                     THEN p.Items[p.Current + 1] ELSE <<>>
        width     == effectiveWidth(p.Width, cfg)
        labelMax  == Max(width - RuneCountInString(current0) - 6, 0)
        label     == IF width > 0 THEN Clip(labelMax, p.Label) ELSE p.Label
        remaining == Max(width - RuneCountInString(label) - 4, 0)
        current   == IF width > 0 THEN Clip(remaining - 2, current0) ELSE current0
        plainWidth  == RuneCountInString(label) + RuneCountInString(current) + 6
        labelText   == colorize(cfg.Colors.Prompt, label, cfg.NoColor)
        currentText == colorize(cfg.Colors.Data, current, cfg.NoColor)
        line == labelText \o <<":", SP, "<", SP>> \o currentText \o <<SP, ">">>
    IN  <<writeComposite(cfg, line, plainWidth, open)>>

\* Input that leaves the cursor out of the visible width it reports.
RenderInputWidthWithoutCursor(p, cfg0, open) ==
    LET cfg         == [cfg0 EXCEPT !.TUI = normalizeTUIConfig(@)]
        width       == effectiveWidth(p.Width, cfg)
        labelRunes  == RuneCountInString(p.Label) + 2
        cursorRunes == IF p.Active THEN RuneCountInString(cfg.TUI.InputCursor) ELSE 0
        value       == IF width > 0
                       THEN Clip(Max(width - labelRunes - cursorRunes, 0), p.Value)
                       ELSE p.Value
        plainWidth  == RuneCountInString(p.Label) + 2 + RuneCountInString(value)
        labelText   == colorize(cfg.Colors.Prompt, p.Label, cfg.NoColor)
        valueText   == colorize(cfg.Colors.Data, value, cfg.NoColor)
        cursorText  == colorize(cfg.Colors.Prompt, cfg.TUI.InputCursor, cfg.NoColor)
        line == IF p.Active THEN labelText \o <<":", SP>> \o valueText \o cursorText
                ELSE labelText \o <<":", SP>> \o valueText
    IN  <<writeComposite(cfg, line, plainWidth, open)>>

\* Input with the cursor appended whether or not the row is active.
RenderInputAlwaysCursor(p, cfg0, open) ==
    LET cfg         == [cfg0 EXCEPT !.TUI = normalizeTUIConfig(@)]
        width       == effectiveWidth(p.Width, cfg)
        labelRunes  == RuneCountInString(p.Label) + 2
        cursorRunes == RuneCountInString(cfg.TUI.InputCursor)
        value       == IF width > 0
                       THEN Clip(Max(width - labelRunes - cursorRunes, 0), p.Value)
                       ELSE p.Value
        plainWidth  == RuneCountInString(p.Label) + 2 + RuneCountInString(value)
                       + RuneCountInString(cfg.TUI.InputCursor)
        labelText   == colorize(cfg.Colors.Prompt, p.Label, cfg.NoColor)
        valueText   == colorize(cfg.Colors.Data, value, cfg.NoColor)
        cursorText  == colorize(cfg.Colors.Prompt, cfg.TUI.InputCursor, cfg.NoColor)
        line == labelText \o <<":", SP>> \o valueText \o cursorText
    IN  <<writeComposite(cfg, line, plainWidth, open)>>

\* Input with no room reserved for the cursor when the value is clipped.
RenderInputNoCursorReserve(p, cfg0, open) ==
    LET cfg         == [cfg0 EXCEPT !.TUI = normalizeTUIConfig(@)]
        width       == effectiveWidth(p.Width, cfg)
        labelRunes  == RuneCountInString(p.Label) + 2
        value       == IF width > 0
                       THEN Clip(Max(width - labelRunes, 0), p.Value)
                       ELSE p.Value
        cursorStr   == IF p.Active THEN cfg.TUI.InputCursor ELSE <<>>
        plainWidth  == RuneCountInString(p.Label) + 2 + RuneCountInString(value)
                       + RuneCountInString(cursorStr)
        labelText   == colorize(cfg.Colors.Prompt, p.Label, cfg.NoColor)
        valueText   == colorize(cfg.Colors.Data, value, cfg.NoColor)
        cursorText  == colorize(cfg.Colors.Prompt, cfg.TUI.InputCursor, cfg.NoColor)
        line == IF p.Active THEN labelText \o <<":", SP>> \o valueText \o cursorText
                ELSE labelText \o <<":", SP>> \o valueText
    IN  <<writeComposite(cfg, line, plainWidth, open)>>

\* TUI.Input.
RenderInput(p, cfg0, open) ==
    LET cfg         == [cfg0 EXCEPT !.TUI = normalizeTUIConfig(@)]
        width       == effectiveWidth(p.Width, cfg)
        labelRunes  == RuneCountInString(p.Label) + 2
        cursorRunes == IF p.Active THEN RuneCountInString(cfg.TUI.InputCursor) ELSE 0
        value       == IF width > 0
                       THEN Clip(Max(width - labelRunes - cursorRunes, 0), p.Value)
                       ELSE p.Value
        cursorStr   == IF p.Active THEN cfg.TUI.InputCursor ELSE <<>>
        plainWidth  == RuneCountInString(p.Label) + 2 + RuneCountInString(value)
                       + RuneCountInString(cursorStr)
        labelText   == colorize(cfg.Colors.Prompt, p.Label, cfg.NoColor)
        valueText   == colorize(cfg.Colors.Data, value, cfg.NoColor)
        cursorText  == colorize(cfg.Colors.Prompt, cfg.TUI.InputCursor, cfg.NoColor)
        line == IF p.Active THEN labelText \o <<":", SP>> \o valueText \o cursorText
                ELSE labelText \o <<":", SP>> \o valueText
    IN  <<writeComposite(cfg, line, plainWidth, open)>>

\* Divider that goes from the per-call Width straight to the DividerWidth.
RenderDividerIgnoreMaxWidth(p, cfg0, open) ==
    LET cfg    == [cfg0 EXCEPT !.TUI = normalizeTUIConfig(@)]
        r      == IF p.Rune = NUL THEN "-" ELSE p.Rune
        width  == IF p.Width <= 0 THEN cfg.TUI.DividerWidth ELSE p.Width
        plain  == Repeat(r, width)
    IN  <<writeComponent(cfg, cfg.Colors.Divider, plain, 0, open)>>

\* TUI.Divider.
RenderDivider(p, cfg0, open) ==
    LET cfg    == [cfg0 EXCEPT !.TUI = normalizeTUIConfig(@)]
        r      == IF p.Rune = NUL THEN "-" ELSE p.Rune
        width1 == IF p.Width <= 0 THEN effectiveWidth(0, cfg) ELSE p.Width
        width  == IF width1 <= 0 THEN cfg.TUI.DividerWidth ELSE width1
        plain  == Repeat(r, width)
    IN  <<writeComponent(cfg, cfg.Colors.Divider, plain, 0, open)>>


----------------------------------------------------------------------------
(* Configuration manager.                                                   *)

\* ConsoleColors{} in the five roles the renderers read.
NoColors == [Menu |-> <<>>, Title |-> <<>>, Prompt |-> <<>>, Data |-> <<>>,
             Divider |-> <<>>]

\* DefaultColors() sets the level, timestamp and field colors only.
DefaultColors == NoColors

\* The zero TUIConfig.
ZeroTUIConfig ==
    [MenuSelectedPrefix |-> <<>>, MenuUnselectedPrefix |-> <<>>, MenuIndexWidth |-> 0,
     InputCursor |-> <<>>, DividerWidth |-> 0, MaxWidth |-> 0, Centered |-> FALSE]

\* Level values.
InfoLevel == "InfoLevel"

DebugLevel == "DebugLevel"

DefaultConfig ==
    [Level |-> InfoLevel, NoColor |-> FALSE, Bypass |-> FALSE, Colors |-> DefaultColors,
     TUI |-> ZeroTUIConfig]

\* normalizeConfig, in the fields the renderers read: an all-empty palette is
\* replaced by DefaultColors(); the layout parameters are kept as given.
normalizeConfig(cfg) ==
    IF cfg.Colors = NoColors THEN [cfg EXCEPT !.Colors = DefaultColors] ELSE cfg

\* The palettes a caller configures: none, every role styled, some roles styled.
Palettes ==
    { NoColors,
      [Menu |-> StyleColor256(14), Title |-> StyleBold, Prompt |-> StyleColor256(6),
       Data |-> StyleColor256(7), Divider |-> StyleColor256(8)],
      [Menu |-> <<>>, Title |-> StyleColor256(15), Prompt |-> <<>>,
       Data |-> StyleBold, Divider |-> <<>>] }

\* The layout widths a caller configures or passes per call.
LayoutWidths == {-1, 0, NarrowWidth, WideWidth}

\* The glyph settings a caller configures: unset, negative widths, and custom.
Glyphs ==
    { [MenuSelectedPrefix |-> <<>>, MenuUnselectedPrefix |-> <<>>, MenuIndexWidth |-> 0,
       InputCursor |-> <<>>, DividerWidth |-> 0],
      [MenuSelectedPrefix |-> <<"*">>, MenuUnselectedPrefix |-> <<>>,
       MenuIndexWidth |-> -1, InputCursor |-> <<>>, DividerWidth |-> -1],
      [MenuSelectedPrefix |-> <<">", ">">>, MenuUnselectedPrefix |-> <<".">>,
       MenuIndexWidth |-> 1, InputCursor |-> <<"|">>, DividerWidth |-> ShortDivider] }

Configs ==
    { [Level |-> InfoLevel, NoColor |-> nc, Bypass |-> FALSE, Colors |-> pal,
       TUI |-> [MenuSelectedPrefix   |-> g.MenuSelectedPrefix,
                MenuUnselectedPrefix |-> g.MenuUnselectedPrefix,
                MenuIndexWidth       |-> g.MenuIndexWidth,
                InputCursor          |-> g.InputCursor,
                DividerWidth         |-> g.DividerWidth,
                MaxWidth             |-> mw,
                Centered             |-> ce]] :
        nc \in BOOLEAN, pal \in Palettes, g \in Glyphs, mw \in LayoutWidths,
        ce \in BOOLEAN }

----------------------------------------------------------------------------
(* Render requests.                                                         *)

\* Labels of differing lengths, one of them styled by the caller (bold "b").
MenuLabels == { <<"a">>, <<"a", "b", "c", "d">>, StyleBold \o <<"b">> }

MenuEntries == [Label : MenuLabels, Selected : BOOLEAN]

\* Sequences of at most n elements of S.
SeqUpTo(S, n) == UNION { [1..k -> S] : k \in 0..n }

RequestWidths == LayoutWidths \cup {WideWidth \div 2}

MenuRequests == [Items : SeqUpTo(MenuEntries, MaxItems), Width : RequestWidths \ {-1}]

TitleTexts ==
    { <<>>, <<"H", "i">>, <<"H", "e", "l", "l", "o">>, StyleBold \o <<"x">>,
      <<BadByte, "a", "b", "c">> }

TitleRequests == [Text : TitleTexts, Width : RequestWidths]

SelectorRequests ==
    [Label   : { <<>>, <<"x">>, <<"l", "a", "b", "e", "l">>, StyleBold \o <<"b">> },
     Items   : { <<>>, << <<"y">> >>, << <<"y">>, <<"o", "p", "t", "i", "o", "n">> >> },
     Current : -1..2,
     Width   : RequestWidths \cup {5, 6}]

InputRequests ==
    [Label  : { <<>>, <<"n", "a", "m", "e">> },
     Value  : { <<>>, <<"d", "a", "n">>, <<"l", "o", "n", "g", "e", "r">>,
                StyleBold \o <<"b">> },
     Active : BOOLEAN,
     Width  : RequestWidths]

ColorfRequests == [color : { <<>>, StyleColor256(14) }, text : TitleTexts]

\* NUL (rune 0) is the unset fill rune.
DividerRequests == [Rune : {NUL, "="}, Width : RequestWidths]

\* Rows and columns, below 1 and from 1 on.
Coords == -2..MaxCoord

MoveToRequests == [row : Coords, col : Coords]

WriteAtRequests ==
    [row : {0, MaxCoord}, col : {-1, 2}, color : { <<>>, StyleColor256(14) },
     text : { <<>>, <<"H", "i">> }]

\* The parameters of a call that takes none.
NoParams == [none |-> TRUE]

\* Which write of a call the sink refuses: none (0), or the k-th.
FailPoints(n) == 0..n

----------------------------------------------------------------------------
(* The renderer as a state machine.                                         *)

None == "none"

\* No call has returned since the caller last took the output.
NoRequest == [op |-> None]

\* No arguments of a text function.
NoArg == [fn |-> None]

\* No text function has been applied yet.
NotApplied == [done |-> FALSE, val |-> <<>>, num |-> 0]

Init ==
    /\ currentConfig = normalizeConfig(DefaultConfig)
    /\ stdoutOpen = TRUE
    /\ pc = "idle"
    /\ request = NoRequest
    /\ composites = <<>>
    /\ stdout = <<>>
    /\ ret = None
    /\ arg = NoArg
    /\ res = NotApplied
    /\ goroutines = <<>>

\* Configure(cfg): replaces the package-global configuration.
Configure(cfg) ==
    /\ pc = "idle"
    /\ currentConfig' = normalizeConfig(cfg)
    /\ UNCHANGED <<stdoutOpen, pc, request, composites, stdout, ret, arg, res, goroutines>>

\* os.Stdout is replaced by a pipe end that is open, or already closed.
SetStdout(open) ==
    /\ pc = "idle"
    /\ stdoutOpen' = open
    /\ UNCHANGED <<currentConfig, pc, request, composites, stdout, ret, arg, res, goroutines>>

\* The writes of a call that the sink accepted, in order.
Accepted(comps) ==
    LET ok == { i \in 1..Len(comps) : comps[i].err = Nil }
        F[n \in 0..Len(comps)] ==
            IF n = 0 THEN <<>>
            ELSE IF n \in ok THEN Append(F[n - 1], comps[n].data) ELSE F[n - 1]
    IN  F[Len(comps)]

\* A render that stores the defaults it filled in back into the configuration.
RenderedStoringDefaults(op, p, comps) ==
    /\ pc = "idle"
    /\ pc' = "done"
    /\ request' = [op |-> op, p |-> p, cfg |-> Configured, open |-> stdoutOpen]
    /\ composites' = comps
    /\ stdout' = Accepted(comps)
    /\ ret' = NoResult
    /\ currentConfig' = [currentConfig EXCEPT !.TUI = normalizeTUIConfig(@)]
    /\ UNCHANGED <<stdoutOpen, arg, res, goroutines>>

\* A render method runs to its return: it takes one snapshot of the configuration,
\* makes its writeComposite calls and gives its caller no result.
Rendered(op, p, comps) ==
    /\ pc = "idle"
    /\ pc' = "done"
    /\ request' = [op |-> op, p |-> p, cfg |-> Configured, open |-> stdoutOpen]
    /\ composites' = comps
    /\ stdout' = Accepted(comps)
    /\ ret' = NoResult
    /\ UNCHANGED <<currentConfig, stdoutOpen, arg, res, goroutines>>

Menu(p) == Rendered("Menu", p, RenderMenu(p, Configured, stdoutOpen))

MenuTitle(p) == Rendered("MenuTitle", p, RenderMenuTitle(p, Configured, stdoutOpen))

Selector(p) == Rendered("Selector", p, RenderSelector(p, Configured, stdoutOpen))

Input(p) == Rendered("Input", p, RenderInput(p, Configured, stdoutOpen))

Divider(p) == Rendered("Divider", p, RenderDivider(p, Configured, stdoutOpen))

\* printfColorf(color, "%s", text), the body of Colorf and the print helpers: one
\* write of the colorized text, whose error is returned.
printfColorf(color, text, cfg, open) == Fprint(open, colorize(color, text, cfg.NoColor))

Colorf(p) ==
    LET w == printfColorf(p.color, p.text, Configured, stdoutOpen)
    IN  /\ pc = "idle"
        /\ pc' = "done"
        /\ request' = [op |-> "Colorf", p |-> p, cfg |-> Configured, open |-> stdoutOpen]
        /\ composites' = <<>>
        /\ stdout' = IF w.err = Nil THEN <<w.data>> ELSE <<>>
        /\ ret' = w.err
        /\ UNCHANGED <<currentConfig, stdoutOpen, arg, res, goroutines>>

\* A screen helper runs to its return: its writes, and the error it returns.
Helped(op, p, failAt, ws) ==
    /\ pc = "idle"
    /\ pc' = "done"
    /\ request' = [op |-> op, p |-> p, cfg |-> Configured, open |-> stdoutOpen,
                   failAt |-> failAt]
    /\ composites' = ws
    /\ stdout' = Accepted(ws)
    /\ ret' = ErrOf(ws)
    /\ UNCHANGED <<currentConfig, stdoutOpen, arg, res, goroutines>>

\* MoveTo(row, col) called on its own.
CallMoveTo(p, failAt) ==
    Helped("MoveTo", p, failAt, UntilError(<<MoveTo(p.row, p.col)>>, stdoutOpen, failAt))

WriteAt(p, failAt) ==
    Helped("WriteAt", p, failAt, RunWriteAt(p, Configured, stdoutOpen, failAt))

BeginFrame(failAt) ==
    Helped("BeginFrame", NoParams, failAt, RunBeginFrame(stdoutOpen, failAt))

EndFrame(failAt) ==
    Helped("EndFrame", NoParams, failAt, RunEndFrame(stdoutOpen, failAt))

Refresh(failAt) ==
    Helped("Refresh", NoParams, failAt, RunRefresh(stdoutOpen, failAt))

\* The caller takes what the call wrote and goes on with a fresh capture.
Return ==
    /\ pc = "done"
    /\ pc' = "idle"
    /\ request' = NoRequest
    /\ composites' = <<>>
    /\ stdout' = <<>>
    /\ ret' = None
    /\ UNCHANGED <<currentConfig, stdoutOpen, arg, res, goroutines>>

Next ==
    \/ \E cfg \in Configs : Configure(cfg)
    \/ \E open \in BOOLEAN : SetStdout(open)
    \/ \E p \in MenuRequests : Menu(p)
    \/ \E p \in TitleRequests : MenuTitle(p)
    \/ \E p \in SelectorRequests : Selector(p)
    \/ \E p \in InputRequests : Input(p)
    \/ \E p \in DividerRequests : Divider(p)
    \/ \E p \in ColorfRequests : Colorf(p)
    \/ \E p \in MoveToRequests, f \in FailPoints(1) : CallMoveTo(p, f)
    \/ \E p \in WriteAtRequests, f \in FailPoints(2) : WriteAt(p, f)
    \/ \E f \in FailPoints(4) : BeginFrame(f)
    \/ \E f \in FailPoints(2) : EndFrame(f)
    \/ \E f \in FailPoints(2) : Refresh(f)
    \/ Return

Spec == Init /\ [][Next]_vars


----------------------------------------------------------------------------
(* The text functions applied to bounded inputs.                            *)

\* Strings that are made of pieces of escape sequences only.
EscTexts == SeqUpTo({ESC, "[", "m"}, MaxEscLen)

\* Strings that mix pieces of escape sequences, parameters and plain text.
MixedTexts == SeqUpTo({ESC, "[", "m", "0", ";", "a"}, MaxTextLen)

\* Strings of plain text, with spaces and invalid bytes.
PlainTexts == SeqUpTo({"a", SP, BadByte}, MaxTextLen + 1)

\* Styles given to colorize: none, an attribute, a 256-color foreground, and both.
Styles == { <<>>, StyleBold, StyleColor256(14), StyleBold \o StyleColor256(14) }

\* Strings with a lone ESC, a sequence cut short, control sequences other than
\* SGR, and SGR sequences among them.
ControlTexts ==
    { <<ESC>>,
      <<ESC, "[", "3", "1">>,
      <<ESC, "[", "2", "J">>,
      <<ESC, "[", "1", ";", "1", "H">>,
      <<ESC, "[", "?", "2", "5", "l">>,
      <<"a">> \o StyleReset \o <<ESC, "[", "2", "J">> \o <<ESC, "[", "3", "1">>,
      StyleColor256(14) \o <<ESC, "[", "1", ";", "1", "H", "a">> \o StyleReset,
      <<ESC, "[", "?", "2", "5", "l">> \o StyleBold \o <<ESC, "a", "m">>,
      <<ESC, ESC, "[", ";", "m", "[", "m">> }

StripArgs == [fn : {"StripANSI"}, s : EscTexts \cup MixedTexts \cup ControlTexts]

ColorizeArgs ==
    [fn : {"colorize"}, color : Styles, text : MixedTexts, disabled : BOOLEAN]

WidthArgs ==
    [fn : {"Clip", "PadLeft", "PadRight", "Center"}, width : -1..MaxClipWidth, s : PlainTexts]

\* Per-call widths and configured maximum widths, negative ones included.
EffectiveWidthArgs ==
    [fn : {"effectiveWidth"}, paramWidth : -2..MaxClipWidth, maxWidth : -2..MaxClipWidth]

TextInit ==
    /\ arg \in StripArgs \cup ColorizeArgs \cup WidthArgs \cup EffectiveWidthArgs
    /\ res = NotApplied
    /\ currentConfig = normalizeConfig(DefaultConfig)
    /\ stdoutOpen = TRUE
    /\ pc = "idle"
    /\ request = NoRequest
    /\ composites = <<>>
    /\ stdout = <<>>
    /\ ret = None
    /\ goroutines = <<>>

Applied(fn, val) ==
    /\ ~res.done
    /\ arg.fn = fn
    /\ res' = [done |-> TRUE, val |-> val, num |-> 0]
    /\ UNCHANGED <<arg, currentConfig, stdoutOpen, pc, request, composites, stdout, ret,
                 goroutines>>

\* One call of a function with an integer result.
AppliedInt(fn, n) ==
    /\ ~res.done
    /\ arg.fn = fn
    /\ res' = [done |-> TRUE, val |-> <<>>, num |-> n]
    /\ UNCHANGED <<arg, currentConfig, stdoutOpen, pc, request, composites, stdout, ret,
                 goroutines>>

ApplyStripANSI == Applied("StripANSI", StripANSI(arg.s))

ApplyColorize == Applied("colorize", colorize(arg.color, arg.text, arg.disabled))

ApplyClip == Applied("Clip", Clip(arg.width, arg.s))

ApplyPadLeft == Applied("PadLeft", PadLeft(arg.width, arg.s))

ApplyPadRight == Applied("PadRight", PadRight(arg.width, arg.s))

ApplyCenter == Applied("Center", Center(arg.width, arg.s))

ApplyEffectiveWidth ==
    AppliedInt("effectiveWidth",
               effectiveWidth(arg.paramWidth,
                              [DefaultConfig EXCEPT !.TUI.MaxWidth = arg.maxWidth]))

TextNext ==
    \/ ApplyStripANSI
    \/ ApplyColorize
    \/ ApplyClip
    \/ ApplyPadLeft
    \/ ApplyPadRight
    \/ ApplyCenter
    \/ ApplyEffectiveWidth

SpecText == TextInit /\ [][TextNext]_vars

----------------------------------------------------------------------------
(* Calls on concurrent goroutines that share the configuration and os.Stdout. *)

\* How many goroutines call into the package at once.
NumGoroutines == 3

\* The configuration a concurrent Configure installs: every role styled, custom
\* glyphs, centred in WideWidth columns.
RestyledConfig ==
    [Level |-> InfoLevel, NoColor |-> FALSE, Bypass |-> FALSE,
     Colors |-> [Menu |-> StyleColor256(14), Title |-> StyleBold,
                 Prompt |-> StyleColor256(6), Data |-> StyleColor256(7),
                 Divider |-> StyleColor256(8)],
     TUI |-> [MenuSelectedPrefix |-> <<">", ">">>, MenuUnselectedPrefix |-> <<".">>,
              MenuIndexWidth |-> 1, InputCursor |-> <<"|">>,
              DividerWidth |-> ShortDivider, MaxWidth |-> WideWidth,
              Centered |-> TRUE]]

\* The calls a goroutine makes: two renders, Configure and the three setters.
Calls ==
    << [op |-> "Menu",
        p  |-> [Items |-> << [Label |-> <<"a">>, Selected |-> TRUE],
                             [Label |-> <<"a", "b", "c", "d">>, Selected |-> FALSE] >>,
                Width |-> 0]],
       [op |-> "Input",
        p  |-> [Label |-> <<"n", "a", "m", "e">>, Value |-> <<"d", "a", "n">>,
                Active |-> TRUE, Width |-> 0]],
       [op |-> "Configure", p |-> [cfg |-> RestyledConfig]],
       [op |-> "SetBypass", p |-> [enabled |-> TRUE]],
       [op |-> "SetLevel", p |-> [level |-> DebugLevel]],
       [op |-> "SetColors",
        p  |-> [colors |-> [Menu |-> <<>>, Title |-> StyleColor256(15),
                            Prompt |-> <<>>, Data |-> StyleBold, Divider |-> <<>>]]] >>

Renders == {"Menu", "Input"}

Setters == {"SetBypass", "SetLevel", "SetColors"}

\* A goroutine about to make its call: cfg is its local variable cfg, at lists
\* the positions in the sink's stream of the writes it has made (of a Configure,
\* how many writes the sink had taken when the configuration was replaced).
Started(call) ==
    [op |-> call.op, p |-> call.p, pcg |-> "start", cfg |-> DefaultConfig, at |-> <<>>]

\* Goroutines have no identity of their own, so which of them makes which call
\* is fixed by listing the calls in the order of Calls.
ConcInit ==
    /\ currentConfig = normalizeConfig(DefaultConfig)
    /\ stdoutOpen = TRUE
    /\ pc = "idle"
    /\ request = NoRequest
    /\ composites = <<>>
    /\ stdout = <<>>
    /\ ret = None
    /\ arg = NoArg
    /\ res = NotApplied
    /\ \E f \in [1..NumGoroutines -> DOMAIN Calls] :
           /\ \A g, h \in 1..NumGoroutines : g < h => f[g] <= f[h]
           /\ goroutines = [g \in 1..NumGoroutines |-> Started(Calls[f[g]])]

\* The configuration a render in progress works from: its local cfg.
RenderConfigReread(g) == currentConfig

RenderConfig(g) == goroutines[g].cfg

\* The Write calls on os.Stdout that one line costs: fmt.Fprintln formats the line
\* and its newline into one buffer and makes a single Write.
SinkWritesNewlineApart(data) == <<SubSeq(data, 1, Len(data) - 1), <<NL>>>>

SinkWrites(data) == <<data>>

RECURSIVE Flatten(_)
Flatten(seqs) == IF seqs = <<>> THEN <<>> ELSE Head(seqs) \o Flatten(Tail(seqs))

\* The lines a render makes of its request under a configuration.
RenderLines(op, p, cfg) ==
    IF op = "Menu" THEN RenderMenu(p, cfg, stdoutOpen) ELSE RenderInput(p, cfg, stdoutOpen)

\* The Write calls a render makes, in order.
WritesOf(op, p, cfg) ==
    LET lines == RenderLines(op, p, cfg)
    IN  Flatten([i \in DOMAIN lines |-> SinkWrites(lines[i].data)])

ConcUnchanged == UNCHANGED <<stdoutOpen, pc, request, composites, ret, arg, res>>

\* cfg := Configured() at the start of a render or a setter: one copy of
\* currentConfig taken under the read lock.
Snapshot(g) ==
    /\ goroutines[g].op \in Renders \cup Setters
    /\ goroutines[g].pcg = "start"
    /\ goroutines' = [goroutines EXCEPT ![g].cfg = Configured, ![g].pcg = "running"]
    /\ UNCHANGED <<currentConfig, stdout>>
    /\ ConcUnchanged

\* The next Write of a render in progress reaches os.Stdout; after its last Write
\* the render returns.
WriteLine(g) ==
    LET r      == goroutines[g]
        writes == WritesOf(r.op, r.p, RenderConfig(g))
        k      == Len(r.at) + 1
    IN  /\ r.op \in Renders
        /\ r.pcg = "running"
        /\ k <= Len(writes)
        /\ stdout' = Append(stdout, writes[k])
        /\ goroutines' = [goroutines EXCEPT
                              ![g].at = Append(@, Len(stdout) + 1),
                              ![g].pcg = IF k = Len(writes) THEN "returned" ELSE @]
        /\ UNCHANGED currentConfig
        /\ ConcUnchanged

\* Configure(cfg) on a goroutine: the replacement happens under the write lock.
ConfigureCall(g) ==
    /\ goroutines[g].op = "Configure"
    /\ goroutines[g].pcg = "start"
    /\ currentConfig' = normalizeConfig(goroutines[g].p.cfg)
    /\ goroutines' = [goroutines EXCEPT ![g].pcg = "returned",
                                        ![g].at = <<Len(stdout)>>]
    /\ UNCHANGED stdout
    /\ ConcUnchanged

\* The assignment a setter makes to its copy.
SetField(cfg, op, p) ==
    CASE op = "SetBypass" -> [cfg EXCEPT !.Bypass = p.enabled]
      [] op = "SetLevel"  -> [cfg EXCEPT !.Level = p.level]
      [] op = "SetColors" -> [cfg EXCEPT !.Colors = p.colors]

\* The rest of a setter: it changes its field of the copy it took and hands the
\* copy to Configure.
SetterWrite(g) ==
    LET r == goroutines[g]
    IN  /\ r.op \in Setters
        /\ r.pcg = "running"
        /\ currentConfig' = normalizeConfig(SetField(r.cfg, r.op, r.p))
        /\ goroutines' = [goroutines EXCEPT ![g].cfg = SetField(r.cfg, r.op, r.p),
                                            ![g].pcg = "returned"]
        /\ UNCHANGED stdout
        /\ ConcUnchanged

ConcNext ==
    \/ \E g \in DOMAIN goroutines : Snapshot(g)
    \/ \E g \in DOMAIN goroutines : WriteLine(g)
    \/ \E g \in DOMAIN goroutines : ConfigureCall(g)
    \/ \E g \in DOMAIN goroutines : SetterWrite(g)

SpecConc == ConcInit /\ [][ConcNext]_vars

----------------------------------------------------------------------------
(* Properties of the text functions, checked under SpecText.                *)

AppliedFn(fn) == res.done /\ arg.fn = fn

\* s[1..n].
Prefix(s, n) == [i \in 1..n |-> s[i]]

\* s holds no SGR sequence: stripping leaves it as it is.
NoSGR(s) == StripANSI(s) = s

\* s is made of complete SGR sequences only.
AllSGR(s) == s # <<>> /\ StripANSI(s) = <<>>

\* C6: StripANSI is idempotent: stripping a stripped string changes nothing,
\* also when removing one sequence joins the pieces of another.
C6_StripIdempotent ==
    AppliedFn("StripANSI") => StripANSI(res.val) = res.val

\* C7 as stated: for any non-empty style and any non-empty text,
\* StripANSI(colorize(style, text, false)) = text.
C7_RoundTripAnyText ==
    (AppliedFn("colorize") /\ ~arg.disabled /\ arg.color # <<>> /\ arg.text # <<>>)
        => StripANSI(res.val) = arg.text

\* C7 amended: for any style made of complete SGR sequences and any non-empty text
\* that holds no SGR sequence, StripANSI(colorize(style, text, false)) = text.
C7_RoundTripPlainText ==
    (AppliedFn("colorize") /\ ~arg.disabled /\ AllSGR(arg.color) /\ arg.text # <<>>
        /\ NoSGR(arg.text))
        => StripANSI(res.val) = arg.text

\* A 256-color style round-trips a text that holds the start of a sequence.
C7_Witness ==
    /\ AppliedFn("colorize") /\ ~arg.disabled
    /\ arg.color = StyleColor256(14)
    /\ arg.text = <<ESC, "[", "a">>
    /\ res.val = StyleColor256(14) \o <<ESC, "[", "a">> \o StyleReset

\* C9 as stated: Clip(width, s) is "" when width <= 0, and otherwise the prefix of s
\* of its first min(width, count(s)) code points.
C9_ClipIsPrefix ==
    AppliedFn("Clip") =>
        res.val = IF arg.width <= 0 THEN <<>>
                  ELSE Prefix(arg.s, Min(arg.width, RuneCountInString(arg.s)))

\* C9 amended: Clip(width, s) is "" when width <= 0; otherwise it has
\* min(width, count(s)) runes, it is s itself when s has at most width runes, and
\* it is the prefix of s of that many runes except that, when s is truncated, each
\* invalid byte kept is replaced by U+FFFD.
C9_ClipCounts ==
    AppliedFn("Clip") =>
        LET n == Min(arg.width, RuneCountInString(arg.s))
        IN  /\ arg.width <= 0 => res.val = <<>>
            /\ arg.width > 0 =>
                /\ RuneCountInString(res.val) = n
                /\ RuneCountInString(arg.s) <= arg.width => res.val = arg.s
                /\ \A i \in 1..n :
                      \/ res.val[i] = arg.s[i]
                      \/ /\ arg.s[i] = BadByte
                         /\ res.val[i] = RuneError
                         /\ RuneCountInString(arg.s) > arg.width
                /\ (\A i \in 1..n : arg.s[i] # BadByte) => res.val = Prefix(arg.s, n)

\* A string with an invalid byte is truncated to two runes.
C9_Witness ==
    /\ AppliedFn("Clip")
    /\ arg.width = 2
    /\ arg.s = <<BadByte, "a", "a", SP>>
    /\ res.val = <<RuneError, "a">>

\* C10: PadLeft(width, s) is Clip(width, s) preceded only by spaces, PadRight is
\* Clip(width, s) followed only by spaces, both have exactly max(width, 0) runes,
\* nothing is added to a clipped string of width runes, and a width <= 0 gives "".
C10_PadExact ==
    (AppliedFn("PadLeft") \/ AppliedFn("PadRight")) =>
        LET c == Clip(arg.width, arg.s)
            k == RuneCountInString(res.val) - RuneCountInString(c)
        IN  /\ RuneCountInString(res.val) = Max(arg.width, 0)
            /\ k >= 0
            /\ arg.fn = "PadLeft" => res.val = Repeat(SP, k) \o c
            /\ arg.fn = "PadRight" => res.val = c \o Repeat(SP, k)
            /\ RuneCountInString(c) = arg.width => res.val = c
            /\ arg.width <= 0 => res.val = <<>>

\* A two-rune string is left-padded to four runes.
C10_Witness ==
    /\ AppliedFn("PadLeft")
    /\ arg.width = 4
    /\ arg.s = <<"a", "a">>
    /\ res.val = <<SP, SP, "a", "a">>

\* The number of spaces s starts with.
RECURSIVE LeadingSpaces(_)
LeadingSpaces(s) ==
    IF s # <<>> /\ Head(s) = SP THEN 1 + LeadingSpaces(Tail(s)) ELSE 0

\* C11: Center(width, s) is Clip(width, s) between floor(pad/2) spaces on the left
\* and pad - floor(pad/2) on the right, pad = max(width - count(Clip(width, s)), 0);
\* the right side gets the extra space of an odd pad, and the result has exactly
\* max(width, 0) runes.
C11_CenterBalanced ==
    AppliedFn("Center") =>
        LET c   == Clip(arg.width, arg.s)
            pad == Max(arg.width - RuneCountInString(c), 0)
            l   == pad \div 2
            n   == RuneCountInString(res.val)
        IN  /\ n = Max(arg.width, 0)
            /\ n = l + RuneCountInString(c) + (pad - l)
            /\ SubSeq(res.val, 1, l) = Repeat(SP, l)
            /\ SubSeq(res.val, l + 1, l + RuneCountInString(c)) = c
            /\ SubSeq(res.val, l + RuneCountInString(c) + 1, n) = Repeat(SP, pad - l)
            /\ pad % 2 = 1 => (pad - l) = l + 1
            /\ pad % 2 = 0 => (pad - l) = l

\* One rune is centered in four: one space before it and two after it.
C11_Witness ==
    /\ AppliedFn("Center")
    /\ arg.width = 4
    /\ arg.s = <<"a">>
    /\ LeadingSpaces(res.val) = 1
    /\ res.val = <<SP, "a", SP, SP>>

\* t is ESC '[', zero or more digits or ';', and a final 'm'.
IsSGR(t) ==
    /\ Len(t) >= 3
    /\ t[1] = ESC /\ t[2] = "[" /\ t[Len(t)] = "m"
    /\ \A i \in 3..(Len(t) - 1) : t[i] \in {"0", "1", "2", "3", "4", "5", "6", "7", "8", "9", ";"}

\* s holds a substring of that form.
HasSGR(s) == \E i, j \in DOMAIN s : i <= j /\ IsSGR(SubSeq(s, i, j))

\* r is s with some substrings of that form taken out and nothing else changed.
RECURSIVE OnlySGRRemoved(_, _)
OnlySGRRemoved(s, r) ==
    IF s = <<>> THEN r = <<>>
    ELSE \/ r # <<>> /\ Head(s) = Head(r) /\ OnlySGRRemoved(Tail(s), Tail(r))
         \/ \E n \in 3..Len(s) :
               IsSGR(SubSeq(s, 1, n)) /\ OnlySGRRemoved(SubSeq(s, n + 1, Len(s)), r)

\* C26: StripANSI gives a result for every string and removes only substrings of
\* the form ESC '[' digits-or-';' 'm'; every other unit stays, in its order: a lone
\* ESC, a sequence without its final 'm' and control sequences other than SGR
\* (ESC[2J, ESC[1;1H, ESC[?25l) are left in place.
C26_StripOnlySGR ==
    AppliedFn("StripANSI") =>
        /\ OnlySGRRemoved(arg.s, res.val)
        /\ ~HasSGR(arg.s) => res.val = arg.s
        /\ HasSGR(arg.s) => Len(res.val) < Len(arg.s)

\* A reset is removed from between a letter, a clear-screen and a cut sequence.
C26_Witness ==
    /\ AppliedFn("StripANSI")
    /\ arg.s = <<"a">> \o StyleReset \o <<ESC, "[", "2", "J">> \o <<ESC, "[", "3", "1">>
    /\ res.val = <<"a", ESC, "[", "2", "J", ESC, "[", "3", "1">>

\* C18: effectiveWidth(paramWidth, cfg) is paramWidth if paramWidth > 0, else
\* cfg.TUI.MaxWidth if that is > 0, else 0, and is never negative.
C18_EffectiveWidthPriority ==
    AppliedFn("effectiveWidth") =>
        /\ arg.paramWidth > 0 => res.num = arg.paramWidth
        /\ (arg.paramWidth <= 0 /\ arg.maxWidth > 0) => res.num = arg.maxWidth
        /\ (arg.paramWidth <= 0 /\ arg.maxWidth <= 0) => res.num = 0
        /\ res.num >= 0

\* A negative per-call width over a negative maximum width resolves to 0.
C18_Witness ==
    /\ AppliedFn("effectiveWidth")
    /\ arg.paramWidth = -1 /\ arg.maxWidth = -2
    /\ res.num = 0

----------------------------------------------------------------------------
(* Properties of the component renderers, checked under Spec.               *)

Components == {"Menu", "MenuTitle", "Selector", "Input", "Divider"}

\* A component render has returned.
RenderDone == pc = "done" /\ request.op \in Components

RenderOf(op) == pc = "done" /\ request.op = op

\* The visible width of a line: its rune count with the SGR sequences stripped.
Visible(line) == RuneCountInString(StripANSI(line))

\* What a write holds before its newline.
Chomp(data) == Prefix(data, Len(data) - 1)

\* The configuration centers lines.
Centering(cfg) == cfg.TUI.Centered /\ cfg.TUI.MaxWidth > 0

Range(f) == { f[i] : i \in DOMAIN f }

\* The strings the caller put in the request.
CallerTexts(r) ==
    CASE r.op = "Menu"      -> { r.p.Items[i].Label : i \in DOMAIN r.p.Items }
      [] r.op = "MenuTitle" -> { r.p.Text }
      [] r.op = "Selector"  -> { r.p.Label } \cup Range(r.p.Items)
      [] r.op = "Input"     -> { r.p.Label, r.p.Value }
      [] r.op = "Colorf"    -> { r.p.text }
      [] OTHER              -> {}

PadOf(cfg, c) == Max(cfg.TUI.MaxWidth - c.plainWidth, 0)

\* The line is written with floor(pad/2) spaces before it and the rest after it.
PaddedAsSpecified(cfg, c) ==
    LET pad  == PadOf(cfg, c)
        left == pad \div 2
    IN  /\ c.data = Repeat(SP, left) \o c.line \o Repeat(SP, pad - left) \o <<NL>>
        /\ c.plainWidth > cfg.TUI.MaxWidth => c.data = c.line \o <<NL>>

C3_NoCenteringWithoutMaxWidth ==
    (RenderDone /\ ~(request.cfg.TUI.Centered /\ request.cfg.TUI.MaxWidth > 0)) =>
        \A i \in DOMAIN composites :
            /\ composites[i].data = composites[i].line \o <<NL>>
            /\ composites[i].left = 0 /\ composites[i].right = 0

\* Centered is set, MaxWidth is negative and the call passes its own Width.
C3_Witness ==
    /\ RenderOf("MenuTitle")
    /\ request.cfg.TUI.Centered /\ request.cfg.TUI.MaxWidth < 0
    /\ request.cfg.NoColor
    /\ request.p = [Text |-> <<"H", "i">>, Width |-> WideWidth]
    /\ composites[1].data = <<"H", "i", NL>>

\* C4: with MaxWidth > 0, the visible content of every line a component writes is
\* at most MaxWidth runes, for every request and per-call Width.
C4_MaxWidthClampsAll ==
    (RenderDone /\ request.cfg.TUI.MaxWidth > 0) =>
        \A i \in DOMAIN composites :
            Visible(composites[i].line) <= request.cfg.TUI.MaxWidth

\* C5: a failed write of the sink during a component render is returned, as it
\* is, to the caller of the render.
C5_WriteErrorPropagated ==
    RenderDone =>
        \A i \in DOMAIN composites :
            composites[i].err # Nil => ret = composites[i].err

\* The plain content MenuTitle hands to colorize.
TitlePlain(r) ==
    LET w == effectiveWidth(r.p.Width, r.cfg)
    IN  IF w > 0 THEN Clip(w, r.p.Text) ELSE r.p.Text

\* C8: colorize returns the text as it is when color is disabled, the style is
\* empty or the text is empty, and style + text + StyleReset otherwise; so with
\* NoColor set, what a component or print helper writes holds no escape sequence
\* that the caller's input did not hold.
C8_ColorizeCases ==
    /\ RenderOf("MenuTitle") =>
          LET text  == TitlePlain(request)
              style == request.cfg.Colors.Title
          IN  composites[1].line =
                  IF request.cfg.NoColor \/ style = <<>> \/ text = <<>> THEN text
                  ELSE style \o text \o StyleReset
    /\ (RenderOf("Colorf") /\ request.open) =>
          stdout[1] =
              IF request.cfg.NoColor \/ request.p.color = <<>> \/ request.p.text = <<>>
              THEN request.p.text
              ELSE request.p.color \o request.p.text \o StyleReset
    /\ (pc = "done" /\ request.cfg.NoColor
            /\ \A s \in CallerTexts(request) : NoSGR(s)) =>
          /\ \A i \in DOMAIN composites : NoSGR(composites[i].data)
          /\ \A i \in DOMAIN stdout : NoSGR(stdout[i])

\* NoColor is set over a styled palette and the title is written bare.
C8_Witness ==
    /\ RenderOf("MenuTitle")
    /\ request.cfg.NoColor /\ request.cfg.Colors.Title # <<>>
    /\ request.p.Text = <<"H", "i">>
    /\ composites[1].line = <<"H", "i">>
    /\ stdout = << <<"H", "i", NL>> >>

----------------------------------------------------------------------------
(* Properties of Selector, Input, Divider and MenuTitle, checked under Spec. *)

\* The option a Selector request points at, "" for an index outside Items.
OptionAt(p) ==
    IF p.Current >= 0 /\ p.Current < Len(p.Items) THEN p.Items[p.Current + 1] ELSE <<>>

\* The width a request is rendered at.
WidthOf(r) == effectiveWidth(r.p.Width, r.cfg)

\* "{label}: < {current} >".
SelectorLine(label, current) == label \o <<":", SP, "<", SP>> \o current \o <<SP, ">">>

\* The line a render wrote, with the styles stripped.
Stripped(i) == StripANSI(composites[i].line)

\* C12 as stated: with an effective width w > 0 the label is clipped to w - 6,
\* whatever the length of the current option, and the option is then clipped to
\* w - 6 - count(label).
C12_LabelClippedFirst ==
    (RenderOf("Selector") /\ WidthOf(request) > 0) =>
        LET w       == WidthOf(request)
            label   == Clip(w - 6, request.p.Label)
            current == Clip(w - 6 - RuneCountInString(label), OptionAt(request.p))
        IN  Stripped(1) = StripANSI(SelectorLine(label, current))

\* C12 amended: with an effective width w > 0 the label is clipped to
\* max(w - count(option) - 6, 0), the option counted before any clipping, and the
\* option is then clipped to max(w - count(label) - 4, 0) - 2; so the option is cut
\* only when the label is cut to nothing, and the line has at most max(w, 6) runes.
C12_OptionKeptBeforeLabel ==
    (RenderOf("Selector") /\ WidthOf(request) > 0) =>
        LET w       == WidthOf(request)
            option  == OptionAt(request.p)
            label   == Clip(Max(w - RuneCountInString(option) - 6, 0), request.p.Label)
            current == Clip(Max(w - RuneCountInString(label) - 4, 0) - 2, option)
        IN  /\ Stripped(1) = StripANSI(SelectorLine(label, current))
            /\ composites[1].plainWidth = RuneCountInString(SelectorLine(label, current))
            /\ NoSGR(request.p.Label) => Stripped(1) = SelectorLine(label, current)
            /\ composites[1].plainWidth <= Max(w, 6)
            /\ RuneCountInString(current) < RuneCountInString(option) => label = <<>>
            /\ RuneCountInString(option) <= w - 6 => current = option

\* A five-rune label gives way to a six-rune option at the wide width.
C12_Witness ==
    /\ RenderOf("Selector")
    /\ request.cfg.TUI.MaxWidth = 0
    /\ request.p.Width = WideWidth
    /\ request.p.Label = <<"l", "a", "b", "e", "l">>
    /\ OptionAt(request.p) = <<"o", "p", "t", "i", "o", "n">>
    /\ Stripped(1) = SelectorLine(Clip(WideWidth - 12, <<"l", "a", "b", "e", "l">>),
                                   <<"o", "p", "t", "i", "o", "n">>)
    /\ RuneCountInString(Stripped(1)) = WideWidth

\* The index of a Selector request points into its Items.
InRange(p) == 0 <= p.Current /\ p.Current < Len(p.Items)

\* C13: the current option of a Selector is Items[Current] when
\* 0 <= Current < len(Items) and "" for every other index (negative, past the end,
\* no Items at all); an index out of range is no fault: the call still writes one
\* line "{label}: <  >".
C13_OutOfRangeIsEmpty ==
    RenderOf("Selector") =>
        LET p == request.p
            w == WidthOf(request)
        IN  /\ Len(composites) = 1
            /\ ret = NoResult
            /\ request.open => (composites[1].err = Nil /\ Len(stdout) = 1)
            /\ (InRange(p) /\ w = 0) =>
                   Stripped(1) = StripANSI(SelectorLine(p.Label, p.Items[p.Current + 1]))
            /\ (~InRange(p) /\ w = 0) =>
                   Stripped(1) = StripANSI(SelectorLine(p.Label, <<>>))
            /\ (~InRange(p) /\ w > 0) =>
                   Stripped(1) = StripANSI(SelectorLine(Clip(w - 6, p.Label), <<>>))
            /\ (~InRange(p) /\ NoSGR(p.Label)) =>
                   \E n \in 0..Len(p.Label) :
                       Stripped(1) = SelectorLine(Prefix(p.Label, n), <<>>)

\* Index 2 of two options: the line is written with nothing between "<" and ">".
C13_Witness ==
    /\ RenderOf("Selector")
    /\ request.open /\ request.cfg.NoColor /\ ~Centering(request.cfg)
    /\ WidthOf(request) = 0
    /\ Len(request.p.Items) = 2 /\ request.p.Current = 2
    /\ request.p.Label = <<"x">>
    /\ stdout = << <<"x", ":", SP, "<", SP, SP, ">", NL>> >>

\* The cursor glyph in force: the configured one, "_" when none is configured.
CursorOf(cfg) ==
    IF cfg.TUI.InputCursor = <<>> THEN defaultInputCursor ELSE cfg.TUI.InputCursor

\* "{label}: {value}" and the cursor glyph of an active row.
InputLine(label, value, cursor, active) ==
    label \o <<":", SP>> \o value \o (IF active THEN cursor ELSE <<>>)

C15_InputValueClipped ==
    (RenderOf("Input") /\ WidthOf(request) > 0) =>
        LET p      == request.p
            cursor == CursorOf(request.cfg)
            c      == IF p.Active THEN RuneCountInString(cursor) ELSE 0
            budget == Max(WidthOf(request) - (RuneCountInString(p.Label) + 2) - c, 0)
            full   == InputLine(p.Label, Clip(budget, p.Value), cursor, p.Active)
        IN  /\ Stripped(1) = StripANSI(full)
            /\ NoSGR(p.Value) => Stripped(1) = full
            /\ composites[1].plainWidth = RuneCountInString(full)
            /\ composites[1].plainWidth =
                   RuneCountInString(p.Label) + 2
                       + Min(budget, RuneCountInString(p.Value)) + c

\* An active row without label: "longer" is cut to make room for the cursor.
C15_Witness ==
    /\ RenderOf("Input")
    /\ WidthOf(request) = 7
    /\ request.p.Active /\ request.p.Label = <<>>
    /\ request.p.Value = <<"l", "o", "n", "g", "e", "r">>
    /\ request.cfg.TUI.InputCursor = <<"|">>
    /\ Stripped(1) = <<":", SP, "l", "o", "n", "g", "|">>

ValidUTF8(s) == \A i \in DOMAIN s : s[i] # BadByte

\* C17 as stated: the stripped output of MenuTitle is the first w runes of the
\* title text when the effective width w is > 0 and the full text when w is 0,
\* for any text.
C17_TitleIsPrefix ==
    RenderOf("MenuTitle") =>
        LET text == request.p.Text
            w    == WidthOf(request)
        IN  Stripped(1) = IF w > 0 THEN Prefix(text, Min(w, RuneCountInString(text)))
                          ELSE text

\* C17 amended: MenuTitle writes Clip(w, text) in the title style when the
\* effective width w is > 0 and the full text when w is 0, and hands the rune
\* count of that clipped text to the compositor. The stripped output is the first
\* min(w, count(text)) runes of the text, nothing added, when the text holds no
\* SGR sequence and is valid UTF-8.
C17_TitleClipped ==
    RenderOf("MenuTitle") =>
        LET text    == request.p.Text
            w       == WidthOf(request)
            n       == IF w > 0 THEN Min(w, RuneCountInString(text))
                       ELSE RuneCountInString(text)
            clipped == IF w > 0 THEN Clip(w, text) ELSE text
        IN  /\ Len(composites) = 1
            /\ composites[1].plainWidth = n
            /\ RuneCountInString(clipped) = n
            /\ Stripped(1) = StripANSI(clipped)
            /\ NoSGR(text) => Stripped(1) = clipped
            /\ (NoSGR(text) /\ ValidUTF8(text)) => Stripped(1) = Prefix(text, n)
            /\ w = 0 => Stripped(1) = StripANSI(text)

\* "Hello" under the narrow width, in a colored title style.
C17_Witness ==
    /\ RenderOf("MenuTitle")
    /\ request.p = [Text |-> <<"H", "e", "l", "l", "o">>, Width |-> NarrowWidth]
    /\ ~request.cfg.NoColor /\ request.cfg.Colors.Title # <<>>
    /\ composites[1].plainWidth = NarrowWidth
    /\ Stripped(1) = Prefix(<<"H", "e", "l", "l", "o">>, NarrowWidth)

\* Everything one call wrote, in order.
RECURSIVE Concat(_)
Concat(writes) ==
    IF writes = <<>> THEN <<>> ELSE Head(writes) \o Concat(Tail(writes))

\* s ends with a newline that no other newline precedes.
EndsWithOneNewline(s) ==
    /\ s # <<>>
    /\ s[Len(s)] = NL
    /\ Len(s) >= 2 => s[Len(s) - 1] # NL

\* C19: the output of each component render (Menu, MenuTitle, Selector, Input,
\* Divider) ends with exactly one newline, for every request, a Menu with an empty
\* item list included, and every line written is terminated by a single newline.
C19_EndsWithOneNewline ==
    (RenderDone /\ request.open) =>
        /\ EndsWithOneNewline(Concat(stdout))
        /\ \A i \in DOMAIN stdout : EndsWithOneNewline(stdout[i])

\* The role style of the i-th entry of a Menu request: title if Selected, else menu.
EntryStyle(r, i) ==
    IF r.p.Items[i].Selected THEN r.cfg.Colors.Title ELSE r.cfg.Colors.Menu

\* "{prefix} {i right-aligned in MenuIndexWidth}) {label}" of the i-th entry, with
\* ">" / " " for an unset prefix and 2 for an unset index width.
EntryText(r, i) ==
    LET tui    == r.cfg.TUI
        e      == r.p.Items[i]
        prefix == IF e.Selected
                  THEN (IF tui.MenuSelectedPrefix = <<>> THEN <<">">>
                        ELSE tui.MenuSelectedPrefix)
                  ELSE (IF tui.MenuUnselectedPrefix = <<>> THEN <<SP>>
                        ELSE tui.MenuUnselectedPrefix)
        iw     == IF tui.MenuIndexWidth <= 0 THEN 2 ELSE tui.MenuIndexWidth
        index  == Repeat(SP, Max(iw - Len(Itoa(i)), 0)) \o Itoa(i)
    IN  prefix \o <<SP>> \o index \o <<")", SP>> \o e.Label

\* The i-th line Menu wrote without the style put around it.
MenuPlain(r, i) ==
    LET line  == composites[i].line
        style == EntryStyle(r, i)
    IN  IF r.cfg.NoColor \/ style = <<>> \/ line = <<>> THEN line
        ELSE SubSeq(line, Len(style) + 1, Len(line) - Len(StyleReset))

\* s starts with t.
StartsWith(s, t) == Len(s) >= Len(t) /\ SubSeq(s, 1, Len(t)) = t

\* The i-th line is in the role style of its entry.
InEntryStyle(r, i) ==
    LET line  == composites[i].line
        style == EntryStyle(r, i)
    IN  (~r.cfg.NoColor /\ style # <<>> /\ line # <<>>) =>
            /\ StartsWith(line, style)
            /\ SubSeq(line, Len(line) - Len(StyleReset) + 1, Len(line)) = StyleReset

\* C20 as stated: Menu writes one line per entry, in request order, and the plain
\* text of the i-th line starts with "{prefix} {i}) {label}" in the style of the
\* entry's role, for every request.
C20_MenuLineStartsWithEntry ==
    RenderOf("Menu") =>
        /\ Len(composites) = Len(request.p.Items)
        /\ \A i \in DOMAIN composites :
              /\ InEntryStyle(request, i)
              /\ StartsWith(MenuPlain(request, i), EntryText(request, i))

\* C20 amended: Menu writes one line per entry, in request order, in the style of
\* the entry's role; the plain text of the i-th line is "{prefix} {i}) {label}"
\* followed by spaces only, cut to the effective width w when w > 0. It starts
\* with the full entry text when w is 0 or at least the entry text's rune count.
C20_MenuLinePerEntry ==
    RenderOf("Menu") =>
        LET w == WidthOf(request)
        IN  /\ Len(composites) = Len(request.p.Items)
            /\ request.open => Len(stdout) = Len(request.p.Items)
            /\ \A i \in DOMAIN composites :
                  LET entry == EntryText(request, i)
                      plain == MenuPlain(request, i)
                  IN  /\ InEntryStyle(request, i)
                      /\ \E k \in 0..composites[i].plainWidth + 1 :
                            LET padded == entry \o Repeat(SP, k)
                            IN  plain = IF w > 0 THEN Clip(w, padded) ELSE padded
                      /\ (w = 0 \/ w >= RuneCountInString(entry)) =>
                            StartsWith(plain, entry)
                      /\ request.open => stdout[i] = composites[i].data

\* Two entries under custom prefixes and colors: the first one selected.
C20_Witness ==
    /\ RenderOf("Menu")
    /\ WidthOf(request) = 0
    /\ ~request.cfg.NoColor
    /\ request.cfg.Colors.Menu # <<>> /\ request.cfg.Colors.Title # <<>>
    /\ request.cfg.Colors.Menu # request.cfg.Colors.Title
    /\ request.cfg.TUI.MenuSelectedPrefix = <<">", ">">>
    /\ Len(request.p.Items) = 2
    /\ request.p.Items[1] = [Label |-> <<"a", "b", "c", "d">>, Selected |-> TRUE]
    /\ request.p.Items[2] = [Label |-> <<"a">>, Selected |-> FALSE]
    /\ MenuPlain(request, 1) = <<">", ">", SP, "1", ")", SP, "a", "b", "c", "d">>
    /\ MenuPlain(request, 2) = <<".", SP, "2", ")", SP, "a", SP, SP, SP, SP>>
    /\ StartsWith(composites[2].line, request.cfg.Colors.Menu)

----------------------------------------------------------------------------
(* Properties of the configuration and of the screen helpers, under Spec.   *)

\* C21: no component render mutates the configuration: over every call of Menu,
\* MenuTitle, Selector, Input, Divider and Refresh, and over the return to the
\* caller, Configured() keeps its value; the defaults normalizeTUIConfig fills in
\* stay in the local copy of the render.
C21_RenderKeepsConfig ==
    [][(pc' = "done" \/ pc = "done") =>
          /\ currentConfig' = currentConfig
          /\ pc' = "done" => request'.cfg = currentConfig']_vars

\* A selected entry is drawn with the default ">" while the configured prefix is
\* still unset after the call.
C21_Witness ==
    /\ RenderOf("Menu")
    /\ Len(request.p.Items) = 1 /\ request.p.Items[1].Selected
    /\ WidthOf(request) = 0 /\ request.cfg.NoColor
    /\ StartsWith(composites[1].line, defaultMenuSelectedPrefix)
    /\ Configured = request.cfg
    /\ Configured.TUI.MenuSelectedPrefix = <<>>
    /\ Configured.TUI.MenuIndexWidth = 0

\* A helper call has returned.
HelperOf(op) == pc = "done" /\ request.op = op

\* C24: MoveTo(row, col) emits ESC [ r ; c H with r = max(row, 1) and
\* c = max(col, 1): a row or column below 1 (0 and the negatives) is clamped to 1,
\* one from 1 on is passed through.
C24_MoveToClamps ==
    HelperOf("MoveTo") =>
        LET r == IF request.p.row >= 1 THEN request.p.row ELSE 1
            c == IF request.p.col >= 1 THEN request.p.col ELSE 1
            seq == <<ESC, "[">> \o Itoa(r) \o <<";">> \o Itoa(c) \o <<"H">>
        IN  /\ Len(composites) = 1
            /\ composites[1].data = seq
            /\ ret = Nil => stdout = <<seq>>
            /\ (request.p.row >= 1 /\ request.p.col >= 1) =>
                   seq = <<ESC, "[">> \o Itoa(request.p.row) \o <<";">>
                             \o Itoa(request.p.col) \o <<"H">>

\* Row 0 is clamped to 1 and column 3 is passed through.
C24_Witness ==
    /\ HelperOf("MoveTo")
    /\ request.p = [row |-> 0, col |-> 3]
    /\ ret = Nil
    /\ stdout = << <<ESC, "[", "1", ";", "3", "H">> >>

\* What the terminal does with one control sequence: screen in use and cursor
\* visibility (DEC private modes 1049 and 25).
TermStep(t, seq) ==
    CASE seq = <<ESC, "[", "?", "1", "0", "4", "9", "h">> -> [t EXCEPT !.alt = TRUE]
      [] seq = <<ESC, "[", "?", "1", "0", "4", "9", "l">> -> [t EXCEPT !.alt = FALSE]
      [] seq = <<ESC, "[", "?", "2", "5", "l">>           -> [t EXCEPT !.cursor = FALSE]
      [] seq = <<ESC, "[", "?", "2", "5", "h">>           -> [t EXCEPT !.cursor = TRUE]
      [] OTHER                                            -> t

\* The terminal after the writes ws, from the state t.
RECURSIVE TermAfter(_, _)
TermAfter(t, ws) ==
    IF ws = <<>> THEN t ELSE TermAfter(TermStep(t, Head(ws)), Tail(ws))

TermStates == [alt : BOOLEAN, cursor : BOOLEAN]

\* C25: when no write fails, BeginFrame emits enter-alt-screen, hide-cursor,
\* clear-screen and move-to(1,1), in this order, and EndFrame emits show-cursor and
\* then exit-alt-screen; so whatever the terminal's state, BeginFrame leaves it on
\* the alternate screen with the cursor hidden and EndFrame leaves it on the main
\* screen with the cursor visible.
C25_FrameSequences ==
    /\ (HelperOf("BeginFrame") /\ ret = Nil) =>
          /\ stdout = << <<ESC, "[", "?", "1", "0", "4", "9", "h">>,
                         <<ESC, "[", "?", "2", "5", "l">>,
                         <<ESC, "[", "2", "J">>,
                         <<ESC, "[", "1", ";", "1", "H">> >>
          /\ \A t \in TermStates :
                TermAfter(t, stdout) = [alt |-> TRUE, cursor |-> FALSE]
    /\ (HelperOf("EndFrame") /\ ret = Nil) =>
          /\ stdout = << <<ESC, "[", "?", "2", "5", "h">>,
                         <<ESC, "[", "?", "1", "0", "4", "9", "l">> >>
          /\ \A t \in TermStates :
                TermAfter(t, stdout) = [alt |-> FALSE, cursor |-> TRUE]

\* EndFrame has written both of its sequences.
C25_Witness ==
    /\ HelperOf("EndFrame")
    /\ ret = Nil
    /\ Len(stdout) = 2
    /\ stdout[2] = ExitAltScreen

\* The sequences and payload a helper call is to write, in order.
Planned(r) ==
    CASE r.op = "BeginFrame" ->
            <<EnterAltScreen, HideCursor, ClearScreen, <<ESC, "[", "1", ";", "1", "H">> >>
      [] r.op = "EndFrame"   -> <<ShowCursor, ExitAltScreen>>
      [] r.op = "Refresh"    -> <<ClearScreen, <<ESC, "[", "1", ";", "1", "H">> >>
      [] r.op = "WriteAt"    ->
            <<MoveTo(r.p.row, r.p.col), colorize(r.p.color, r.p.text, r.cfg.NoColor)>>

\* The first write of a call that fails; one past the last when none does.
FirstFailure(r) ==
    LET n == Len(Planned(r))
    IN  IF ~r.open THEN 1
        ELSE IF r.failAt \in 1..n THEN r.failAt
        ELSE n + 1

\* C30: BeginFrame, EndFrame, Refresh and WriteAt stop at the first write that
\* fails and return its error: what precedes it has been written and nothing after
\* it is. A failed show-cursor in EndFrame leaves exit-alt-screen unwritten, and a
\* BeginFrame that fails after enter-alt-screen writes no exit-alt-screen.
C30_StopAtFirstError ==
    (pc = "done" /\ request.op \in {"BeginFrame", "EndFrame", "Refresh", "WriteAt"}) =>
        LET plan == Planned(request)
            k    == FirstFailure(request)
        IN  /\ stdout = SubSeq(plan, 1, k - 1)
            /\ Len(composites) = Min(k, Len(plan))
            /\ k <= Len(plan) => (ret # Nil /\ ret = composites[k].err)
            /\ k > Len(plan) => ret = Nil
            /\ (request.op = "EndFrame" /\ k = 1) =>
                   \A i \in DOMAIN stdout : stdout[i] # ExitAltScreen
            /\ (request.op = "BeginFrame" /\ k \in 2..4) =>
                   /\ stdout[1] = EnterAltScreen
                   /\ \A i \in DOMAIN stdout : stdout[i] # ExitAltScreen

\* BeginFrame entered the alternate screen and its second write failed.
C30_Witness ==
    /\ HelperOf("BeginFrame")
    /\ request.open /\ request.failAt = 2
    /\ ret = ErrNoSpace
    /\ stdout = <<EnterAltScreen>>

\* s holds no escape character.
NoEscape(s) == \A i \in DOMAIN s : s[i] # ESC

\* The prefixes and the cursor of the configuration hold no escape character.
PlainGlyphs(cfg) ==
    /\ NoEscape(cfg.TUI.MenuSelectedPrefix)
    /\ NoEscape(cfg.TUI.MenuUnselectedPrefix)
    /\ NoEscape(cfg.TUI.InputCursor)

\* C27: for Menu, MenuTitle, Divider, Selector and Input, when the caller's strings
\* and the configured prefixes and cursor hold no escape sequence, the visible
\* width handed to writeComposite is the rune count of the style-stripped line
\* written, for every width, Active flag, index and color setting.
C27_VisibleWidthIsStrippedCount ==
    (RenderDone /\ PlainGlyphs(request.cfg)
        /\ \A s \in CallerTexts(request) : NoEscape(s)) =>
        \A i \in DOMAIN composites :
            /\ composites[i].plainWidth = RuneCountInString(Stripped(i))
            /\ composites[i].data =
                   Repeat(SP, composites[i].left) \o composites[i].line
                       \o Repeat(SP, composites[i].right) \o <<NL>>
            /\ RuneCountInString(StripANSI(Chomp(composites[i].data))) =
                   composites[i].left + composites[i].plainWidth + composites[i].right

\* An active, colored and centered Input row with its cursor.
C27_Witness ==
    /\ RenderOf("Input")
    /\ request.p.Active /\ ~request.cfg.NoColor
    /\ request.cfg.Colors.Prompt # <<>> /\ request.cfg.Colors.Data # <<>>
    /\ Centering(request.cfg)
    /\ request.p.Label = <<"n", "a", "m", "e">>
    /\ request.p.Value = <<"d", "a", "n">>
    /\ WidthOf(request) = WideWidth
    /\ composites[1].plainWidth = 10
    /\ RuneCountInString(composites[1].line) > 10
    /\ RuneCountInString(Stripped(1)) = 10

\* C28: with an effective width w >= 6 the visible content of Selector (label,
\* current and the 6 decoration runes) is at most w runes, for all labels and
\* options; with 0 < w < 6 label and current are both clipped to nothing and the
\* visible content is the 6 decoration runes ": <  >".
C28_SelectorWidthBound ==
    (RenderOf("Selector") /\ WidthOf(request) > 0) =>
        LET w == WidthOf(request)
        IN  /\ w >= 6 =>
                  /\ composites[1].plainWidth <= w
                  /\ RuneCountInString(Stripped(1)) <= w
            /\ w < 6 =>
                  /\ composites[1].plainWidth = 6
                  /\ composites[1].line = <<":", SP, "<", SP, SP, ">">>

\* At width 7 the label goes and the six-rune option is cut to one rune.
C28_Witness ==
    /\ RenderOf("Selector")
    /\ WidthOf(request) = 7
    /\ request.p.Label = <<"l", "a", "b", "e", "l">>
    /\ OptionAt(request.p) = <<"o", "p", "t", "i", "o", "n">>
    /\ Stripped(1) = <<":", SP, "<", SP, "o", SP, ">">>
    /\ composites[1].plainWidth = 7

----------------------------------------------------------------------------
(* Properties of concurrent calls, checked under SpecConc.                  *)

\* The goroutines that render.
Rendering == { g \in DOMAIN goroutines : goroutines[g].op \in Renders }

\* C22: a render takes its configuration once, at its start, and keeps it: the
\* copy never changes while the render runs, and every write the render has made
\* is the write its request gives under that one copy, whatever Configure or a
\* setter has installed in the meantime.
C22_RenderFromOneSnapshot ==
    /\ [](\A g \in Rendering :
            LET r == goroutines[g]
            IN  \A k \in DOMAIN r.at :
                    /\ k <= Len(WritesOf(r.op, r.p, r.cfg))
                    /\ stdout[r.at[k]] = WritesOf(r.op, r.p, r.cfg)[k])
    /\ [][\A g \in Rendering :
            /\ goroutines[g].pcg = "start" /\ goroutines'[g].pcg # "start"
                   => goroutines'[g].cfg = currentConfig
            /\ goroutines[g].pcg # "start"
                   => goroutines'[g].cfg = goroutines[g].cfg]_vars

\* A Menu wrote its first entry, Configure then installed a configuration under
\* which the second entry reads differently, and the Menu wrote its second entry.
C22_Witness ==
    \E g, h \in DOMAIN goroutines :
        LET r == goroutines[g]
        IN  /\ r.op = "Menu"
            /\ r.at = <<1, 2>>
            /\ goroutines[h].op = "Configure"
            /\ goroutines[h].at = <<1>>
            /\ currentConfig # r.cfg
            /\ WritesOf(r.op, r.p, currentConfig)[2] # stdout[2]

\* C23: every write that reaches the shared sink is one whole line of one render
\* (left padding, styled content, right padding, one newline); a render's lines
\* reach the sink in the render's order, each once, and a render that has
\* returned has written all of them. Lines of different renders may alternate.
C23_WholeLinesOnly ==
    /\ \A i \in DOMAIN stdout :
           \E g \in Rendering :
               LET r     == goroutines[g]
                   lines == RenderLines(r.op, r.p, r.cfg)
               IN  \E k \in DOMAIN r.at :
                       /\ r.at[k] = i
                       /\ k <= Len(lines)
                       /\ stdout[i] = Repeat(SP, lines[k].left) \o lines[k].line
                                          \o Repeat(SP, lines[k].right) \o <<NL>>
    /\ \A g \in Rendering :
           LET r == goroutines[g]
           IN  /\ \A j, k \in DOMAIN r.at : j < k => r.at[j] < r.at[k]
               /\ \A k \in DOMAIN r.at : r.at[k] \in DOMAIN stdout
               /\ r.pcg = "returned"
                      => Len(r.at) = Len(RenderLines(r.op, r.p, r.cfg))
    /\ \A g, h \in Rendering :
           g # h => \A j \in DOMAIN goroutines[g].at, k \in DOMAIN goroutines[h].at :
                        goroutines[g].at[j] # goroutines[h].at[k]

\* The line of an Input reached the sink between the two entries of a Menu.
C23_Witness ==
    \E g, h \in DOMAIN goroutines :
        /\ goroutines[g].op = "Menu"
        /\ goroutines[g].at = <<1, 3>>
        /\ goroutines[h].op = "Input"
        /\ goroutines[h].at = <<2>>
        /\ Len(stdout) = 3

\* The goroutines that call a setter.
Setting == { g \in DOMAIN goroutines : goroutines[g].op \in Setters }

\* What a setter was asked to store is in the active configuration.
Stored(r) ==
    CASE r.op = "SetBypass" -> Configured.Bypass = r.p.enabled
      [] r.op = "SetLevel"  -> Configured.Level = r.p.level
      [] r.op = "SetColors" -> Configured.Colors = r.p.colors

\* C29: when setters of different fields, called from different goroutines with
\* no Configure beside them, have all returned, the active configuration holds
\* what each of them was asked to store.
C29_NoLostUpdate ==
    (/\ \A g \in DOMAIN goroutines :
            goroutines[g].op # "Configure" /\ goroutines[g].pcg = "returned"
     /\ \A g, h \in Setting : g # h => goroutines[g].op # goroutines[h].op)
        => \A g \in Setting : Stored(goroutines[g])

====
